---- MODULE Spec2Model ----
(***************************************************************************)
(* The fraud dashboard script (src/app.py): a Streamlit script that is     *)
(* re-executed top to bottom on every user interaction.  Each section      *)
(* fetches one warehouse view through run_query, which is memoised by      *)
(* st.cache_data(ttl=60), and renders it; the trend and drill-down         *)
(* sections first derive YEAR and MONTH from a timestamp column and then   *)
(* group or filter the table by the values picked in the select boxes.     *)
(*                                                                         *)
(* A table (DataFrame) is a sequence of rows, a row a record of its cells. *)
(* The empty DataFrame is <<>>.  The rows of a view are kept in the order  *)
(* in which the warehouse returns them.                                    *)
(***************************************************************************)
EXTENDS Integers, Sequences, FiniteSets, TLC

VARIABLES
    now,          \* the clock the cache reads, in seconds
    warehouse,    \* the rows of each warehouse view
    cache,        \* st.cache_data's entries of run_query, one per query text
    lastOp,       \* the last run_query call: what it returned, whether session.sql ran
    pc,           \* the section the script run is about to execute
    shown,        \* the elements the current script run has put on the page
    offered,      \* the options each select box of the current run offers
    kpi_df, trend_df, yearly_df, monthly_df, daily_df,
    year_m, year_d, month_d,
    loc_df, dash_df, filtered_df,
    year, month, city, risk

vars == <<now, warehouse, cache, lastOp, pc, shown, offered,
          kpi_df, trend_df, yearly_df, monthly_df, daily_df,
          year_m, year_d, month_d,
          loc_df, dash_df, filtered_df, year, month, city, risk>>

trendLocals == <<trend_df, yearly_df, monthly_df, daily_df, year_m, year_d, month_d>>
dashLocals  == <<dash_df, filtered_df, year, month, city, risk>>

----------------------------------------------------------------------------
(* Bounds of the model *)

MaxClock      == 90     \* the clock stops here
ClockStep     == 30     \* one of the two amounts the clock advances by
MaxTrendRows  == 2      \* rows of an enumerated TRENDS view
MaxDashRows   == 2      \* rows of an enumerated DASHBOARD view

(* Program constants *)

TTL      == 60          \* @st.cache_data(ttl=60)
RowLimit == 2000        \* LIMIT 2000 of the drill-down query

\* What pandas gives for the year or month of a missing timestamp (NaN), and
\* what a select box with no options returns (None): equal to nothing, itself
\* included.
NaN == -1

Queries == {"KPI", "TRENDS", "LOCATION_RISK", "DASHBOARD"}

----------------------------------------------------------------------------
(* Cells of a timestamp column *)

\* The text "y-m-d" as the warehouse returns it.
DateStr(y, m, d) == [kind |-> "str", y |-> y, m |-> m, d |-> d]
\* A NULL cell.
NullCell == [kind |-> "null", y |-> 0, m |-> 0, d |-> 0]
\* A text that is no date.
BadCell == [kind |-> "bad", y |-> 0, m |-> 0, d |-> 0]
\* pandas' Timestamp and NaT.
Timestamp(y, m, d) == [kind |-> "ts", y |-> y, m |-> m, d |-> d]
NaT == [kind |-> "nat", y |-> 0, m |-> 0, d |-> 0]

\* pd.to_datetime of one cell that parses.
ToDatetime(c) ==
    CASE c.kind = "str"  -> Timestamp(c.y, c.m, c.d)
      [] c.kind = "ts"   -> c
      [] OTHER           -> NaT

\* pd.to_datetime(df[col]) raises (errors="raise" is the default) when a cell
\* does not parse.
ToDatetimeRaises(df, col) == \E i \in 1..Len(df) : df[i][col].kind = "bad"

\* .dt.year and .dt.month
DtYear(c)  == IF c.kind = "ts" THEN c.y ELSE NaN
DtMonth(c) == IF c.kind = "ts" THEN c.m ELSE NaN

\* df[col] = pd.to_datetime(df[col]); df["YEAR"] = ...dt.year; df["MONTH"] = ...dt.month
Decompose(df, col) ==
    [i \in 1..Len(df) |->
        LET t == ToDatetime(df[i][col]) IN
        [f \in DOMAIN df[i] \cup {"YEAR", "MONTH"} |->
            CASE f = col     -> t
              [] f = "YEAR"  -> DtYear(t)
              [] f = "MONTH" -> DtMonth(t)
              [] OTHER       -> df[i][f]]]

----------------------------------------------------------------------------
(* pandas on a table *)

\* series == value, element-wise: NaN and None equal nothing
Eq(a, b) == a # NaN /\ b # NaN /\ a = b

\* df[col].unique(), as the set of its values
Unique(df, col) == {df[i][col] : i \in 1..Len(df)}

\* df[df[col] == v]
WhereEq(df, col, v) ==
    LET Test(r) == Eq(r[col], v) IN SelectSeq(df, Test)

RECURSIVE SumCol(_, _)
\* df[col].sum()
SumCol(df, col) ==
    IF df = <<>> THEN 0 ELSE df[1][col] + SumCol(Tail(df), col)

RECURSIVE Ascending(_)
\* the values of a set of numbers in ascending order
Ascending(S) ==
    IF S = {} THEN <<>>
    ELSE LET lo == CHOOSE x \in S : \A y \in S : x <= y
         IN <<lo>> \o Ascending(S \ {lo})

\* GroupSum, with each group's first value in place of the group's sum.
GroupFirst(df, key, metric) ==
    LET keys == Ascending(Unique(df, key) \ {NaN}) IN
    [i \in 1..Len(keys) |->
        [k \in {key, metric} |->
            IF k = key THEN keys[i]
            ELSE WhereEq(df, key, keys[i])[1][metric]]]

\* df.groupby(key)[metric].sum().reset_index(): one row per key value, the
\* keys ascending; groupby drops the rows whose key is NaN.
GroupSum(df, key, metric) ==
    LET keys == Ascending(Unique(df, key) \ {NaN}) IN
    [i \in 1..Len(keys) |->
        [k \in {key, metric} |->
            IF k = key THEN keys[i]
            ELSE SumCol(WhereEq(df, key, keys[i]), metric)]]

----------------------------------------------------------------------------
(* The adapter and the cache *)

Take(s, n) == IF Len(s) <= n THEN s ELSE SubSeq(s, 1, n)

\* session.sql(query).to_pandas() when the warehouse answers: the view's rows,
\* the drill-down query's cut by its LIMIT.
SqlResult(q, w) == IF q = "DASHBOARD" THEN Take(w[q], RowLimit) ELSE w[q]

NoEntry == [present |-> FALSE, value |-> <<>>, fetched |-> 0, failed |-> FALSE]

\* Fresh, with an entry still served at the very second its ttl runs out.
FreshInclusive(e, t) == e.present /\ t - e.fetched <= TTL

\* An entry of st.cache_data(ttl=60) is served while less than ttl seconds
\* have passed since it was stored.
Fresh(e, t) == e.present /\ t - e.fetched < TTL

\* Store, with the result of a failed call not kept.
StoreSuccessOnly(c, q, value, failed, t) ==
    IF failed THEN c
    ELSE [c EXCEPT ![q] = [present |-> TRUE, value |-> value,
                           fetched |-> t, failed |-> failed]]

\* What st.cache_data keeps of a call: the returned table, the time, and the
\* st.error element the call showed (replayed on a hit).
Store(c, q, value, failed, t) ==
    [c EXCEPT ![q] = [present |-> TRUE, value |-> value,
                      fetched |-> t, failed |-> failed]]

\* run_query(q).  ok: whether session.sql(q).to_pandas() succeeds, should it
\* be called.  Gives the table returned, the cache afterwards, whether the
\* adapter was invoked and whether st.error is shown.
run_query(q, ok) ==
    IF Fresh(cache[q], now)
    THEN [result |-> cache[q].value, cache |-> cache,
          invoked |-> FALSE, error |-> cache[q].failed]
    ELSE LET res == IF ok THEN SqlResult(q, warehouse) ELSE <<>>
         IN [result |-> res, cache |-> Store(cache, q, res, ~ok, now),
             invoked |-> TRUE, error |-> ~ok]

\* MutateInPlace, with the cache handing out the very table it stores (as
\* st.cache_resource does).
MutateInPlaceShared(c, q, df) == [c EXCEPT ![q].value = df]

\* The effect on the cache of the script's in-place assignments to the table
\* run_query(q) returned, df being the table after them: st.cache_data hands
\* out a copy of what it stored, so the entry is out of their reach.
MutateInPlace(c, q, df) == c

\* What is remembered of a call of run_query, and the time it was made.
Op(q, rq) ==
    [q |-> q, at |-> now, invoked |-> rq.invoked, result |-> rq.result,
     error |-> rq.error]

ErrorShown(q, rq) == IF rq.error THEN {"error:" \o q} ELSE {}

----------------------------------------------------------------------------
(* Select boxes *)

\* st.selectbox(label, sorted(values)): the options offered; sentinel says
\* whether "ALL" is put in front of them.
Options(sentinel, values) == [sentinel |-> sentinel, values |-> values]
NoOptions == Options(FALSE, {})

\* The values a select box of numbers can return: one of its options, None
\* when it has none.
Selectable(o) == IF o.values = {} THEN {NaN} ELSE o.values

\* The values a select box of texts can return.
SelectableText(o) == (IF o.sentinel THEN {"ALL"} ELSE {}) \cup o.values

RiskLevels == {"HIGH_RISK", "MEDIUM_RISK", "LOW_RISK"}

\* The LOCATION of a row that has none.
NoLocation == "<null>"

----------------------------------------------------------------------------
(* The views of the sections *)

\* trend_df[(trend_df["YEAR"] == y) & (trend_df["MONTH"] == m)]
WhereYearMonth(df, y, m) ==
    LET Test(r) == Eq(r.YEAR, y) /\ Eq(r.MONTH, m) IN SelectSeq(df, Test)

\* sorted(df["YEAR"].unique())
YearOptions(df) == Options(FALSE, Unique(df, "YEAR"))

\* The Month select box of the daily trend:
\* sorted(trend_df[trend_df["YEAR"] == year_d]["MONTH"].unique())
DailyMonthOptions(df, y) == Options(FALSE, Unique(WhereEq(df, "YEAR", y), "MONTH"))

\* The Month select box of the drill-down: sorted(dash_df["MONTH"].unique())
DrillMonthOptions(df, y) == Options(FALSE, Unique(df, "MONTH"))

\* ["ALL"] + sorted(dash_df["LOCATION"].dropna().unique())
CityOptions(df) == Options(TRUE, Unique(df, "LOCATION") \ {NoLocation})

\* ["ALL", "HIGH_RISK", "MEDIUM_RISK", "LOW_RISK"]
RiskOptions == Options(TRUE, RiskLevels)

\* FilterCity, with "ALL" taken for the name of a city.
FilterCityNoSentinel(df, c) ==
    LET Test(r) == r.LOCATION # NoLocation /\ r.LOCATION = c
    IN SelectSeq(df, Test)

\* if city != "ALL": filtered_df = filtered_df[filtered_df["LOCATION"] == city]
FilterCity(df, c) ==
    LET Test(r) == r.LOCATION # NoLocation /\ r.LOCATION = c
    IN IF c # "ALL" THEN SelectSeq(df, Test) ELSE df

\* if risk != "ALL": filtered_df = filtered_df[filtered_df["FRAUD_RISK_LEVEL"] == risk]
FilterRisk(df, r) ==
    LET Test(row) == row.FRAUD_RISK_LEVEL = r
    IN IF r # "ALL" THEN SelectSeq(df, Test) ELSE df

\* Filtered, with the risk level left out.
FilteredNoRisk(df, y, m, c, r) == FilterCity(WhereYearMonth(df, y, m), c)

\* filtered_df of the drill-down
Filtered(df, y, m, c, r) == FilterRisk(FilterCity(WhereYearMonth(df, y, m), c), r)

NoOffers ==
    [month_year_filter |-> NoOptions, daily_year |-> NoOptions,
     daily_month |-> NoOptions, Year |-> NoOptions, Month |-> NoOptions,
     City |-> NoOptions, Risk |-> NoOptions]

----------------------------------------------------------------------------
(* The script, section by section *)

\* A script run starts: a user interaction, or the first load.  Its
\* variables are those of the new run.
Rerun ==
    /\ pc # "kpi"
    /\ pc' = "kpi"
    /\ shown' = {"title"}
    /\ offered' = NoOffers
    /\ kpi_df' = <<>> /\ loc_df' = <<>>
    /\ trend_df' = <<>> /\ yearly_df' = <<>> /\ monthly_df' = <<>> /\ daily_df' = <<>>
    /\ year_m' = NaN /\ year_d' = NaN /\ month_d' = NaN
    /\ dash_df' = <<>> /\ filtered_df' = <<>>
    /\ year' = NaN /\ month' = NaN /\ city' = "" /\ risk' = ""
    /\ UNCHANGED <<now, warehouse, cache, lastOp>>

\* KPI SECTION
KpiSection ==
    /\ pc = "kpi"
    /\ \E ok \in BOOLEAN :
         LET rq == run_query("KPI", ok) IN
         /\ cache' = rq.cache
         /\ lastOp' = Op("KPI", rq)
         /\ kpi_df' = rq.result
         /\ shown' = shown \cup ErrorShown("KPI", rq)
                       \cup (IF rq.result # <<>> THEN {"kpi_metrics"} ELSE {})
    /\ pc' = "trend"
    /\ UNCHANGED <<now, warehouse, offered, loc_df>>
    /\ UNCHANGED trendLocals
    /\ UNCHANGED dashLocals

\* LOAD TREND DATA, YEARLY PIE, MONTHLY PIE, DAILY TREND
TrendSection ==
    /\ pc = "trend"
    /\ \E ok \in BOOLEAN :
         LET rq == run_query("TRENDS", ok) IN
         /\ lastOp' = Op("TRENDS", rq)
         /\ IF rq.result = <<>>
            THEN /\ cache' = rq.cache
                 /\ trend_df' = rq.result
                 /\ shown' = shown \cup ErrorShown("TRENDS", rq)
                 /\ pc' = "loc"
                 /\ UNCHANGED <<offered, yearly_df, monthly_df, daily_df,
                                year_m, year_d, month_d>>
            ELSE IF ToDatetimeRaises(rq.result, "TXN_DATE")
            THEN /\ cache' = rq.cache
                 /\ trend_df' = rq.result
                 /\ shown' = shown \cup ErrorShown("TRENDS", rq) \cup {"exception"}
                 /\ pc' = "aborted"
                 /\ UNCHANGED <<offered, yearly_df, monthly_df, daily_df,
                                year_m, year_d, month_d>>
            ELSE LET df == Decompose(rq.result, "TXN_DATE") IN
                 /\ cache' = MutateInPlace(rq.cache, "TRENDS", df)
                 /\ trend_df' = df
                 /\ yearly_df' = GroupSum(df, "YEAR", "HIGH_RISK_TXNS")
                 /\ \E ym \in Selectable(YearOptions(df)),
                       yd \in Selectable(YearOptions(df)) :
                      \E md \in Selectable(DailyMonthOptions(df, yd)) :
                         /\ year_m' = ym
                         /\ monthly_df' = GroupSum(WhereEq(df, "YEAR", ym),
                                                   "MONTH", "HIGH_RISK_TXNS")
                         /\ year_d' = yd
                         /\ month_d' = md
                         /\ daily_df' = WhereYearMonth(df, yd, md)
                         /\ offered' = [offered EXCEPT
                                !.month_year_filter = YearOptions(df),
                                !.daily_year = YearOptions(df),
                                !.daily_month = DailyMonthOptions(df, yd)]
                 /\ shown' = shown \cup ErrorShown("TRENDS", rq)
                                \cup {"yearly_pie", "monthly_pie", "daily_chart"}
                 /\ pc' = "loc"
    /\ UNCHANGED <<now, warehouse, kpi_df, loc_df>>
    /\ UNCHANGED dashLocals

\* LOCATION RISK
LocSection ==
    /\ pc = "loc"
    /\ \E ok \in BOOLEAN :
         LET rq == run_query("LOCATION_RISK", ok) IN
         /\ cache' = rq.cache
         /\ lastOp' = Op("LOCATION_RISK", rq)
         /\ loc_df' = rq.result
         /\ shown' = shown \cup ErrorShown("LOCATION_RISK", rq) \cup {"loc_subheader"}
                       \cup (IF rq.result # <<>> THEN {"loc_chart"} ELSE {})
    /\ pc' = "dash"
    /\ UNCHANGED <<now, warehouse, offered, kpi_df>>
    /\ UNCHANGED trendLocals
    /\ UNCHANGED dashLocals

\* DRILL DOWN, and the success message that ends the script
DashSection ==
    /\ pc = "dash"
    /\ \E ok \in BOOLEAN :
         LET rq == run_query("DASHBOARD", ok) IN
         /\ lastOp' = Op("DASHBOARD", rq)
         /\ IF rq.result = <<>>
            THEN /\ cache' = rq.cache
                 /\ dash_df' = rq.result
                 /\ shown' = shown \cup ErrorShown("DASHBOARD", rq)
                                \cup {"drill_subheader", "success"}
                 /\ pc' = "done"
                 /\ UNCHANGED <<offered, filtered_df, year, month, city, risk>>
            ELSE IF ToDatetimeRaises(rq.result, "TXN_TIME")
            THEN /\ cache' = rq.cache
                 /\ dash_df' = rq.result
                 /\ shown' = shown \cup ErrorShown("DASHBOARD", rq)
                                \cup {"drill_subheader", "exception"}
                 /\ pc' = "aborted"
                 /\ UNCHANGED <<offered, filtered_df, year, month, city, risk>>
            ELSE LET df == Decompose(rq.result, "TXN_TIME") IN
                 /\ cache' = MutateInPlace(rq.cache, "DASHBOARD", df)
                 /\ dash_df' = df
                 /\ \E y \in Selectable(YearOptions(df)) :
                      \E m \in Selectable(DrillMonthOptions(df, y)),
                         c \in SelectableText(CityOptions(df)),
                         r \in SelectableText(RiskOptions) :
                         /\ year' = y /\ month' = m /\ city' = c /\ risk' = r
                         /\ filtered_df' = Filtered(df, y, m, c, r)
                         /\ offered' = [offered EXCEPT
                                !.Year = YearOptions(df),
                                !.Month = DrillMonthOptions(df, y),
                                !.City = CityOptions(df),
                                !.Risk = RiskOptions]
                 /\ shown' = shown \cup ErrorShown("DASHBOARD", rq)
                                \cup {"drill_subheader", "drill_table", "success"}
                 /\ pc' = "done"
    /\ UNCHANGED <<now, warehouse, kpi_df, loc_df>>
    /\ UNCHANGED trendLocals

\* Time passes.
Tick ==
    /\ \E d \in {ClockStep, TTL - 1} :
         /\ now + d <= MaxClock
         /\ now' = now + d
    /\ UNCHANGED <<warehouse, cache, lastOp, pc, shown, offered, kpi_df, loc_df>>
    /\ UNCHANGED trendLocals
    /\ UNCHANGED dashLocals

----------------------------------------------------------------------------
(* The warehouse views *)

KpiView ==
    <<[TOTAL_TXNS |-> 100, TOTAL_AMOUNT |-> 5000, HIGH_RISK_TXNS |-> 22,
       MEDIUM_RISK_TXNS |-> 30, LOW_RISK_TXNS |-> 48]>>

LocationView ==
    <<[LOCATION |-> "Delhi", HIGH_RISK_TXNS |-> 15],
      [LOCATION |-> "Mumbai", HIGH_RISK_TXNS |-> 7]>>

TrendRow(c, n) == [TXN_DATE |-> c, HIGH_RISK_TXNS |-> n]

DashRow(c, l, r) == [TXN_TIME |-> c, LOCATION |-> l, FRAUD_RISK_LEVEL |-> r]

\* The TRENDS rows of the specification's example.
ExampleTrends ==
    <<TrendRow(DateStr(2024, 1, 5), 10), TrendRow(DateStr(2024, 1, 20), 5),
      TrendRow(DateStr(2024, 2, 1), 7)>>

\* A TRENDS view with a TXN_DATE that is no date.
MalformedTrends ==
    <<TrendRow(DateStr(2023, 2, 5), 10), TrendRow(BadCell, 5)>>

SmallDash ==
    <<DashRow(DateStr(2023, 1, 10), "Delhi", "HIGH_RISK"),
      DashRow(DateStr(2024, 2, 20), "Mumbai", "LOW_RISK")>>

\* A DASHBOARD view with a TXN_TIME that is no date.
MalformedDash ==
    <<DashRow(DateStr(2023, 1, 10), "Delhi", "HIGH_RISK"),
      DashRow(BadCell, "Mumbai", "LOW_RISK")>>

\* A DASHBOARD view of more rows than the drill-down query's LIMIT.
BigDash ==
    [i \in 1..(RowLimit + 1) |->
        DashRow(DateStr(2024, 2, 20), "Delhi", "HIGH_RISK")]

Views(trends, dash) ==
    [q \in Queries |->
        CASE q = "KPI"           -> KpiView
          [] q = "TRENDS"        -> trends
          [] q = "LOCATION_RISK" -> LocationView
          [] q = "DASHBOARD"     -> dash]

\* The state of a session whose script is about to run for the first time.
FirstLoad ==
    /\ now = 0
    /\ cache = [q \in Queries |-> NoEntry]
    /\ lastOp = [q |-> "", at |-> 0, invoked |-> FALSE, result |-> <<>>,
                 error |-> FALSE]
    /\ pc = "kpi"
    /\ shown = {"title"}
    /\ offered = NoOffers
    /\ kpi_df = <<>> /\ loc_df = <<>>
    /\ trend_df = <<>> /\ yearly_df = <<>> /\ monthly_df = <<>> /\ daily_df = <<>>
    /\ year_m = NaN /\ year_d = NaN /\ month_d = NaN
    /\ dash_df = <<>> /\ filtered_df = <<>>
    /\ year = NaN /\ month = NaN /\ city = "" /\ risk = ""

Init ==
    /\ \E t \in {ExampleTrends, MalformedTrends}, d \in {SmallDash, MalformedDash} :
         warehouse = Views(t, d)
    /\ FirstLoad

Next == Rerun \/ KpiSection \/ TrendSection \/ LocSection \/ DashSection \/ Tick

Spec == Init /\ [][Next]_vars

----------------------------------------------------------------------------
(* One script run over every small view: the tables the sections compute *)

TrendCells == {DateStr(2023, 2, 5), DateStr(2024, 1, 5), DateStr(2024, 1, 20),
               DateStr(2024, 2, 1), NullCell, BadCell}

TrendRows == {TrendRow(c, n) : c \in TrendCells, n \in {5, 7, 10}}

DashCells == {DateStr(2023, 1, 10), DateStr(2024, 2, 20), NullCell}

DashRows ==
    {DashRow(c, l, r) : c \in DashCells, l \in {"Delhi", "Mumbai"},
                        r \in {"HIGH_RISK", "LOW_RISK"}}
        \cup {DashRow(DateStr(2024, 2, 20), NoLocation, "HIGH_RISK")}

Tables(rows, n) == UNION {[1..k -> rows] : k \in 0..n}

InitViews ==
    /\ \/ \E t \in Tables(TrendRows, MaxTrendRows) \cup {ExampleTrends} :
            warehouse = Views(t, <<>>)
       \/ \E d \in Tables(DashRows, MaxDashRows) :
            warehouse = Views(<<>>, d)
    /\ FirstLoad

NextViews == KpiSection \/ TrendSection \/ LocSection \/ DashSection

SpecViews == InitViews /\ [][NextViews]_vars

\* Script runs over a DASHBOARD view larger than the drill-down's LIMIT.
InitBig ==
    /\ \E t \in {<<>>, ExampleTrends, MalformedTrends} : warehouse = Views(t, BigDash)
    /\ FirstLoad

NextBig == Rerun \/ KpiSection \/ TrendSection \/ LocSection \/ DashSection

SpecBig == InitBig /\ [][NextBig]_vars

----------------------------------------------------------------------------
(* Properties of the cache and of the script run (under Spec) *)

SectionOf(q) ==
    CASE q = "KPI"           -> "kpi"
      [] q = "TRENDS"        -> "trend"
      [] q = "LOCATION_RISK" -> "loc"
      [] q = "DASHBOARD"     -> "dash"

\* The step is a call of run_query(q): the section of q runs (a section ends
\* at the next one, at the end of the script or in an exception).
Called(q) == pc = SectionOf(q) /\ pc' \notin {pc, "kpi"}

\* The entry of q is less than TTL seconds old.
WithinTTL(q) == cache[q].present /\ now - cache[q].fetched < TTL

\* C1: a call of run_query(q) made less than 60 seconds after the fetch that
\* populated the entry of q does not invoke the adapter, returns the content
\* that fetch returned and leaves the entry as it is; a call made 60 seconds
\* or more after it (or with no entry) invokes the adapter and replaces the
\* entry by what it fetched, stamped with the time of the call.
C1_CacheWithinTTL ==
    [][\A q \in Queries : Called(q) =>
          IF WithinTTL(q)
          THEN /\ ~lastOp'.invoked
               /\ lastOp'.result = cache[q].value
               /\ cache'[q] = cache[q]
          ELSE /\ lastOp'.invoked
               /\ cache'[q].present
               /\ cache'[q].fetched = now
               /\ cache'[q].value = lastOp'.result]_vars

\* A call served from the cache in the last second of the entry's TTL.
C1_Witness ==
    /\ lastOp.q \in Queries
    /\ ~lastOp.invoked
    /\ cache[lastOp.q].present
    /\ lastOp.at - cache[lastOp.q].fetched = TTL - 1
    /\ lastOp.result # <<>>

\* C2: when the adapter fails in run_query(q), the call does not raise (the
\* script goes on to what follows), an error message is shown, the call
\* returns the empty table, and the empty table is stored as the entry of q
\* like any result; a call of run_query(q) within 60 seconds of a failed
\* fetch returns the empty table without invoking the adapter, so the adapter
\* is invoked again for q only once the TTL has expired.
C2_FailureCached ==
    [][\A q \in Queries : Called(q) =>
          /\ (lastOp'.invoked /\ lastOp'.error) =>
                /\ lastOp'.result = <<>>
                /\ pc' # "aborted"
                /\ ("error:" \o q) \in shown'
                /\ cache'[q] = [present |-> TRUE, value |-> <<>>,
                                fetched |-> now, failed |-> TRUE]
          /\ (cache[q].present /\ cache[q].failed
                /\ now - cache[q].fetched < TTL) =>
                /\ ~lastOp'.invoked
                /\ lastOp'.result = <<>>
                /\ cache'[q] = cache[q]
          /\ (cache[q].present /\ cache[q].failed /\ lastOp'.invoked) =>
                now - cache[q].fetched >= TTL]_vars

\* A call that found the empty table of a failed fetch in the cache, made
\* after the clock has advanced.
C2_Witness ==
    /\ lastOp.q \in Queries
    /\ ~lastOp.invoked
    /\ lastOp.error
    /\ lastOp.result = <<>>
    /\ cache[lastOp.q].failed
    /\ lastOp.at > cache[lastOp.q].fetched

\* C3: whatever queries fail in a script run, the run is not stopped: it
\* reaches the final success message, and at its end every section whose
\* query returned rows has been rendered and every other one skipped.
C3_FailureIsolation ==
    /\ pc # "aborted"
    /\ pc = "done" =>
          /\ "success" \in shown
          /\ ("kpi_metrics" \in shown) = (kpi_df # <<>>)
          /\ ("yearly_pie" \in shown) = (trend_df # <<>>)
          /\ ("loc_chart" \in shown) = (loc_df # <<>>)
          /\ ("drill_table" \in shown) = (dash_df # <<>>)

\* The rows of df whose cell of col parses.
Parseable(df, col) ==
    LET Test(r) == r[col].kind # "bad" IN SelectSeq(df, Test)

\* C8: when the fetched TRENDS or DASHBOARD table has a timestamp cell that
\* is no date, the section drops that row, renders the remaining rows and the
\* script goes on to the next section.
C8_MalformedRowsDropped ==
    /\ (lastOp.q = "TRENDS" /\ pc \in {"loc", "aborted"}
          /\ ToDatetimeRaises(lastOp.result, "TXN_DATE")) =>
          /\ pc = "loc"
          /\ trend_df = Decompose(Parseable(lastOp.result, "TXN_DATE"), "TXN_DATE")
    /\ (lastOp.q = "DASHBOARD" /\ pc \in {"done", "aborted"}
          /\ ToDatetimeRaises(lastOp.result, "TXN_TIME")) =>
          /\ pc = "done"
          /\ dash_df = Decompose(Parseable(lastOp.result, "TXN_TIME"), "TXN_TIME")

\* The cells of a table as the adapter fetched it: the timestamp column
\* unparsed, no YEAR and no MONTH column.
AsFetched(df, col) ==
    \A i \in 1..Len(df) :
        /\ "YEAR" \notin DOMAIN df[i]
        /\ "MONTH" \notin DOMAIN df[i]
        /\ df[i][col].kind \in {"str", "null", "bad"}

\* C10: date decomposition and filtering leave the cache's entries alone: an
\* entry always holds the table as the adapter fetched it (or the empty
\* table of a failed fetch), run_query returns it so, and the derived
\* columns of a rendered trend table are computed in that script run from
\* the table run_query returned.
C10_EntryUntouched ==
    /\ \A q \in Queries : cache[q].present =>
          cache[q].value \in {<<>>, SqlResult(q, warehouse)}
    /\ AsFetched(cache["TRENDS"].value, "TXN_DATE")
    /\ AsFetched(cache["DASHBOARD"].value, "TXN_TIME")
    /\ lastOp.q = "TRENDS" => AsFetched(lastOp.result, "TXN_DATE")
    /\ lastOp.q = "DASHBOARD" => AsFetched(lastOp.result, "TXN_TIME")
    /\ (pc = "loc" /\ "yearly_pie" \in shown) =>
          trend_df = Decompose(cache["TRENDS"].value, "TXN_DATE")

\* A script run that decomposed the TRENDS table it got from the cache, the
\* entry having been returned to, and decomposed by, an earlier run.
C10_Witness ==
    /\ pc = "loc"
    /\ lastOp.q = "TRENDS"
    /\ ~lastOp.invoked
    /\ "yearly_pie" \in shown
    /\ trend_df # lastOp.result
    /\ \A i \in 1..Len(trend_df) : trend_df[i].YEAR # NaN

----------------------------------------------------------------------------
(* Properties of the views the sections compute (under SpecViews) *)

\* The Month select box of the section is the one offered with its table.
DailyShown == "daily_chart" \in shown
DrillShown == "drill_table" \in shown

\* The distinct MONTH values of the rows of df whose YEAR is y.
MonthsOf(df, y) == {df[i].MONTH : i \in {k \in 1..Len(df) : df[k].YEAR = y}}

\* C4: in the daily-trend section and in the drill-down section, the months
\* offered for the selected year are exactly the distinct MONTH values of
\* the rows of that year, and the view of the selected (year, month) has a
\* row.
C4_DependentMonths ==
    /\ DailyShown =>
          /\ offered.daily_month.values = MonthsOf(trend_df, year_d)
          /\ daily_df # <<>>
    /\ DrillShown =>
          /\ offered.Month.values = MonthsOf(dash_df, year)
          /\ WhereYearMonth(dash_df, year, month) # <<>>

\* The row satisfies every constraint of the drill-down's selection that is
\* not "ALL".
Satisfies(r) ==
    /\ r.YEAR = year /\ year # NaN
    /\ r.MONTH = month /\ month # NaN
    /\ city # "ALL" => r.LOCATION = city
    /\ risk # "ALL" => r.FRAUD_RISK_LEVEL = risk

\* The indices of the rows of dash_df that satisfy the selection, and the
\* i-th of them in ascending order.
Kept == {k \in 1..Len(dash_df) : Satisfies(dash_df[k])}
KeptAt(i) == CHOOSE k \in Kept : Cardinality({j \in Kept : j <= k}) = i

\* C5: the filtered view of the drill-down holds exactly the rows of the
\* table that satisfy every constraint that is not "ALL", in their original
\* relative order, and applying the constraints in another order gives the
\* same view.
C5_FilterConjunction ==
    DrillShown =>
        /\ Len(filtered_df) = Cardinality(Kept)
        /\ \A i \in 1..Len(filtered_df) : filtered_df[i] = dash_df[KeptAt(i)]
        /\ filtered_df = WhereYearMonth(FilterCity(FilterRisk(dash_df, risk), city),
                                        year, month)
        /\ filtered_df = FilterCity(WhereYearMonth(FilterRisk(dash_df, risk),
                                                   year, month), city)
        /\ filtered_df = FilterRisk(WhereYearMonth(FilterCity(dash_df, city),
                                                   year, month), risk)

\* A drill-down with a city and a risk level selected whose view keeps a row
\* of the selected year and month and drops another.
C5_Witness ==
    /\ DrillShown
    /\ city # "ALL" /\ risk # "ALL"
    /\ filtered_df # <<>>
    /\ Len(filtered_df) < Len(WhereYearMonth(dash_df, year, month))

\* C6: each of the four select boxes of the drill-down offers "ALL", and
\* with every constraint the selection leaves open set to "ALL" the filtered
\* view is the table itself.
C6_AllIsIdentity ==
    DrillShown =>
        /\ \A w \in {"Year", "Month", "City", "Risk"} : offered[w].sentinel
        /\ (city = "ALL" /\ risk = "ALL") => filtered_df = dash_df

\* C6 as amended: only the City and the Risk select box offer "ALL"; Year
\* and Month offer the values of the table alone and always constrain.  With
\* city and risk both "ALL" the filtered view is the rows of the table of the
\* selected year and month, in order: the table itself exactly when every
\* row has that year and month.
C6_AllLeavesYearMonth ==
    DrillShown =>
        /\ offered.City.sentinel /\ offered.Risk.sentinel
        /\ ~offered.Year.sentinel /\ ~offered.Month.sentinel
        /\ year \in offered.Year.values /\ month \in offered.Month.values
        /\ (city = "ALL" /\ risk = "ALL") =>
              /\ filtered_df = WhereYearMonth(dash_df, year, month)
              /\ (filtered_df = dash_df) =
                    (\A i \in 1..Len(dash_df) :
                        Eq(dash_df[i].YEAR, year) /\ Eq(dash_df[i].MONTH, month))

\* A drill-down with city and risk "ALL" whose view has rows, yet not all
\* the rows of the table.
C6_Witness ==
    /\ DrillShown
    /\ city = "ALL" /\ risk = "ALL"
    /\ filtered_df # <<>>
    /\ Len(filtered_df) < Len(dash_df)

RECURSIVE SumAt(_, _, _)
\* The sum of column col over the rows of df at the indices I.
SumAt(df, col, I) ==
    IF I = {} THEN 0
    ELSE LET k == CHOOSE x \in I : TRUE
         IN df[k][col] + SumAt(df, col, I \ {k})

\* out has one row per value of column key among the rows of df at the
\* indices I, the keys ascending, each with the sum of HIGH_RISK_TXNS over
\* the rows of I with that key.
IsGroupSumOf(out, df, key, I) ==
    LET keys == {df[k][key] : k \in I} \ {NaN} IN
    /\ Len(out) = Cardinality(keys)
    /\ \A i \in 1..Len(out) : out[i][key] \in keys
    /\ \A i, j \in 1..Len(out) : i < j => out[i][key] < out[j][key]
    /\ \A i \in 1..Len(out) :
          out[i].HIGH_RISK_TXNS =
              SumAt(df, "HIGH_RISK_TXNS", {k \in I : df[k][key] = out[i][key]})

\* C7: the yearly aggregation has one row per distinct YEAR of the table,
\* ascending, with the sum of HIGH_RISK_TXNS over the rows of that year; the
\* monthly aggregation of the selected year has one row per distinct MONTH
\* of the rows of that year, likewise; no group without rows appears.  The
\* rows (2024-01-05, 10), (2024-01-20, 5), (2024-02-01, 7) give
\* [(2024, 22)] and, for 2024, [(1, 15), (2, 7)].
C7_GroupSums ==
    ("yearly_pie" \in shown) =>
        /\ IsGroupSumOf(yearly_df, trend_df, "YEAR", 1..Len(trend_df))
        /\ IsGroupSumOf(monthly_df, trend_df, "MONTH",
                        {k \in 1..Len(trend_df) : trend_df[k].YEAR = year_m
                                                  /\ year_m # NaN})
        /\ lastOp.result = ExampleTrends =>
              /\ yearly_df = <<[YEAR |-> 2024, HIGH_RISK_TXNS |-> 22]>>
              /\ year_m = 2024
              /\ monthly_df = <<[MONTH |-> 1, HIGH_RISK_TXNS |-> 15],
                                [MONTH |-> 2, HIGH_RISK_TXNS |-> 7]>>

\* The aggregations of the example's rows.
C7_Witness ==
    /\ "yearly_pie" \in shown
    /\ pc = "loc"
    /\ lastOp.result = ExampleTrends
    /\ Len(monthly_df) = 2

\* C9: the drill-down table, and so the filtered view, never has more than
\* 2000 rows, and when the warehouse view has more rows than that the page
\* tells the user that the table is truncated.
C9_RowCapVisible ==
    DrillShown =>
        /\ Len(dash_df) <= RowLimit
        /\ Len(filtered_df) <= RowLimit
        /\ Len(warehouse["DASHBOARD"]) > RowLimit => "truncation_notice" \in shown

====
